---------------------------- MODULE Spec2Model ----------------------------
(***************************************************************************)
(* A model of the code transformation platform                             *)
(* (src/src/core/engine.py) and of its web front end                       *)
(* (src/src/web/interface.py): the session store, the per-subscription     *)
(* pipeline (event_generator), plan extraction from the model output and   *)
(* the application of a plan to the remote or the local environment.       *)
(*                                                                         *)
(* Texts are sequences of lexemes, file contents are sequences of          *)
(* characters, the clock counts seconds.                                   *)
(***************************************************************************)
EXTENDS Integers, Sequences, FiniteSets, TLC

VARIABLES
    cfg,              \* process-wide settings read at import time / from os.environ
    now,              \* datetime.now().timestamp(), in seconds
    session_objs,     \* the session dicts ever created (a heap: index -> dict)
    active_sessions,  \* interface.py: session id -> index of its dict
    runs,             \* the event_generator instances (one per stream subscription)
    ap,               \* one call of implement_transformations, entry by entry
    pp,               \* one plan extraction on a model output
    cli,              \* one execution of main(), the command-line pipeline
    mk                \* one call of CodeTransformationPlatform(...)

vars == <<cfg, now, session_objs, active_sessions, runs, ap, pp, cli, mk>>

-----------------------------------------------------------------------------
(* Bounds of the model *)

MaxSessions == 2
MaxRuns == 2
MaxTicks == 1
MaxPlanLen == 3
MaxProse == 1
MaxObjLen == 2
MaxPipelineLoad == 2
MaxCleanups == 3

(* Settings.SESSION_TIMEOUT, seconds *)
SESSION_TIMEOUT == 3600

-----------------------------------------------------------------------------
(* Python helpers *)

None == "None"

Range(s) == {s[i] : i \in 1..Len(s)}

SeqsUpTo(S, n) == UNION {[1..k -> S] : k \in 0..n}

\* str.find(ch): the 0-based index of the first occurrence, -1 if none
Find(content, ch) ==
    IF \E i \in 1..Len(content) : content[i] = ch
    THEN (CHOOSE i \in 1..Len(content) :
              content[i] = ch /\ \A j \in 1..(i-1) : content[j] # ch) - 1
    ELSE -1

\* str.rfind(ch): the 0-based index of the last occurrence, -1 if none
RFind(content, ch) ==
    IF \E i \in 1..Len(content) : content[i] = ch
    THEN (CHOOSE i \in 1..Len(content) :
              content[i] = ch /\ \A j \in (i+1)..Len(content) : content[j] # ch) - 1
    ELSE -1

\* one bound of a Python slice: negative counts from the end, then clamped
SliceIndex(k, n) ==
    LET m == IF k < 0 THEN k + n ELSE k
    IN  IF m < 0 THEN 0 ELSE IF m > n THEN n ELSE m

\* content[start:end]
PySlice(content, start, end) ==
    LET lo == SliceIndex(start, Len(content))
        hi == SliceIndex(end, Len(content))
    IN  IF lo >= hi THEN <<>> ELSE SubSeq(content, lo + 1, hi)

-----------------------------------------------------------------------------
(* The model output and the plan in it.                                    *)
(* Lexemes: "{" "}" "[" "]", "K" (the key "transformations" and its        *)
(* colon), "w" (a word of prose) and the bodies of plan entries, each      *)
(* standing for the key/value pairs of one entry.                          *)

Paths == {"a.txt", "d/b.txt", "../x.txt", "/tmp/x.txt"}

ModificationType == {"create", "modify", "delete"}

NoEntry == [has_path |-> FALSE, has_op |-> FALSE, file_path |-> "",
            operation |-> "", content |-> <<>>]

\* the key/value pairs a body lexeme stands for
BodyFields(b) ==
    CASE b = "create_a" -> [has_path |-> TRUE, has_op |-> TRUE, file_path |-> "a.txt",
                            operation |-> "create", content |-> <<"X">>]
      [] b = "delete_a" -> [has_path |-> TRUE, has_op |-> TRUE, file_path |-> "a.txt",
                            operation |-> "delete", content |-> <<>>]
      [] b = "modify_a" -> [has_path |-> TRUE, has_op |-> TRUE, file_path |-> "a.txt",
                            operation |-> "modify", content |-> <<"Y">>]
      [] b = "create_b" -> [has_path |-> TRUE, has_op |-> TRUE, file_path |-> "d/b.txt",
                            operation |-> "create", content |-> <<"X">>]
      [] b = "modify_b" -> [has_path |-> TRUE, has_op |-> TRUE, file_path |-> "d/b.txt",
                            operation |-> "modify", content |-> <<"X">>]
      [] b = "quote_a"  -> [has_path |-> TRUE, has_op |-> TRUE, file_path |-> "a.txt",
                            operation |-> "create", content |-> <<"X", "'">>]
      [] b = "create_up" -> [has_path |-> TRUE, has_op |-> TRUE, file_path |-> "../x.txt",
                             operation |-> "create", content |-> <<"X">>]
      [] b = "create_abs" -> [has_path |-> TRUE, has_op |-> TRUE, file_path |-> "/tmp/x.txt",
                              operation |-> "create", content |-> <<"X">>]
      [] b = "rename_a" -> [has_path |-> TRUE, has_op |-> TRUE, file_path |-> "a.txt",
                            operation |-> "rename", content |-> <<"X">>]
      [] b = "no_op"    -> [has_path |-> TRUE, has_op |-> FALSE, file_path |-> "a.txt",
                            operation |-> "", content |-> <<"X">>]
      [] b = "no_path"  -> [has_path |-> FALSE, has_op |-> TRUE, file_path |-> "",
                            operation |-> "create", content |-> <<"X">>]
      [] OTHER -> NoEntry

WellFormedBodies == {"create_a", "delete_a", "modify_a", "create_b", "modify_b", "quote_a"}

\* entries whose file_path is absolute or climbs out of the repository
EscapingBodies == {"create_up", "create_abs"}

Bodies == WellFormedBodies \cup EscapingBodies \cup {"rename_a", "no_op", "no_path"}

RECURSIVE EntriesText(_)
\* the lexemes of the entries listed in "transformations"
EntriesText(bs) ==
    IF bs = <<>> THEN <<>>
    ELSE <<"{", Head(bs), "}">> \o EntriesText(Tail(bs))

\* the text of the object {"transformations": [ ... ]}
ObjectText(bs) == <<"{", "K", "[">> \o EntriesText(bs) \o <<"]", "}">>

\* json.loads restricted to the objects above and to the empty object:
\* the listed bodies, or failure (json.JSONDecodeError)
JsonLoads(json_str) ==
    LET n == Len(json_str)
        k == (n - 5) \div 3
    IN  IF json_str = <<"{", "}">> THEN [ok |-> TRUE, bodies |-> <<>>]
        ELSE IF /\ n >= 5
                /\ (n - 5) % 3 = 0
                /\ SubSeq(json_str, 1, 3) = <<"{", "K", "[">>
                /\ SubSeq(json_str, n - 1, n) = <<"]", "}">>
                /\ \A j \in 1..k :
                       /\ json_str[3*j + 1] = "{"
                       /\ json_str[3*j + 2] \in Bodies
                       /\ json_str[3*j + 3] = "}"
             THEN [ok |-> TRUE, bodies |-> [j \in 1..k |-> json_str[3*j + 2]]]
             ELSE [ok |-> FALSE, bodies |-> <<>>]

\* CodeModification(file_path=mod["file_path"], operation=mod["operation"],
\*                  content=mod.get("content", ""))
CodeModification(b) ==
    [file_path |-> BodyFields(b).file_path,
     operation |-> BodyFields(b).operation,
     content   |-> BodyFields(b).content]

\* ExtractJson without the cut at the last "}"
ExtractJson_ToEnd(content) ==
    PySlice(content, Find(content, "{"), Len(content))

\* the substring from the first "{" to the last "}"
ExtractJson(content) ==
    LET start_idx == Find(content, "{")
        end_idx   == RFind(content, "}") + 1
    IN  PySlice(content, start_idx, end_idx)

\* ParsePlan reading the keys of an entry with defaults (mod.get) instead of
\* mod["file_path"] and mod["operation"]
ParsePlan_KeysOptional(content) ==
    LET data == JsonLoads(ExtractJson(content))
    IN  IF ~data.ok THEN [ok |-> FALSE, transformations |-> <<>>]
        ELSE [ok |-> TRUE,
              transformations |-> [j \in 1..Len(data.bodies) |->
                                       CodeModification(data.bodies[j])]]

\* create_code_transformations, from the model's answer on: the list of
\* transformations, or failure (RuntimeError)
ParsePlan(content) ==
    LET data == JsonLoads(ExtractJson(content))
    IN  IF ~data.ok THEN [ok |-> FALSE, transformations |-> <<>>]
        ELSE IF \E j \in 1..Len(data.bodies) :
                    ~BodyFields(data.bodies[j]).has_path \/ ~BodyFields(data.bodies[j]).has_op
             THEN [ok |-> FALSE, transformations |-> <<>>]
             ELSE [ok |-> TRUE,
                   transformations |-> [j \in 1..Len(data.bodies) |->
                                            CodeModification(data.bodies[j])]]

-----------------------------------------------------------------------------
(* The file tree of an environment's repository checkout.                  *)
(* cloned: the repository directory exists; dirs: its sub-directories;     *)
(* files: a function from the locations written to their contents.  A      *)
(* location is written relative to repo_path, or absolute when it starts   *)
(* with "/"; "../x.txt" is a file next to the repository directory.        *)

EmptyFiles == [q \in {} |-> <<>>]

FreshRepo == [cloned |-> TRUE, dirs |-> {}, files |-> EmptyFiles]

NoRepo == [cloned |-> FALSE, dirs |-> {}, files |-> EmptyFiles]

\* os.path.join(repo_path, file_path): an absolute file_path replaces
\* repo_path, any other is appended to it
LocalPath(p) == p

\* f"{repo_path}/{file_path}": an absolute file_path is appended like any
\* other, and the doubled slash counts as one
RemotePath(p) == IF p = "/tmp/x.txt" THEN "tmp/x.txt" ELSE p

\* the location lies under the repository directory
UnderRoot(loc) == loc \notin {"../x.txt", "/tmp/x.txt"}

\* os.path.dirname of a location: "" is the repository directory itself,
\* ".." the directory it lies in
Parent(p) ==
    CASE p = "d/b.txt" -> "d"
      [] p = "tmp/x.txt" -> "tmp"
      [] p = "../x.txt" -> ".."
      [] p = "/tmp/x.txt" -> "/tmp"
      [] OTHER -> ""

\* /tmp is there whatever the checkout; ".." is resolved through the
\* repository directory
ParentExists(fs, p) ==
    \/ Parent(p) = "/tmp"
    \/ fs.cloned /\ (Parent(p) \in {"", ".."} \/ Parent(p) \in fs.dirs)

WriteFile(fs, p, c) ==
    [fs EXCEPT !.files = [q \in (DOMAIN fs.files) \cup {p} |->
                              IF q = p THEN c ELSE fs.files[q]]]

RemoveFile(fs, p) ==
    [fs EXCEPT !.files = [q \in (DOMAIN fs.files) \ {p} |-> fs.files[q]]]

\* os.makedirs(os.path.dirname(full_path), exist_ok=True)
MakeDirs(fs, p) ==
    IF Parent(p) = "/tmp" THEN fs
    ELSE [fs EXCEPT !.cloned = TRUE,
                    !.dirs = IF Parent(p) \in {"", ".."} THEN @ ELSE @ \cup {Parent(p)}]

\* the location lies under workspace_path, the directory the local checkout
\* is cloned into
InWorkspace(loc) == loc # "/tmp/x.txt"

\* shutil.rmtree(self.workspace_path): the checkout and whatever else lies
\* under the scratch directory are gone
RemoveTree(fs) ==
    [cloned |-> FALSE, dirs |-> {},
     files |-> [q \in {loc \in DOMAIN fs.files : ~InWorkspace(loc)} |-> fs.files[q]]]

Quotes(c) == Cardinality({i \in 1..Len(c) : c[i] = "'"})

\* the word the shell makes of 'c': the quote characters are removed
Unquote(c) == SelectSeq(c, LAMBDA ch : ch # "'")

\* the shell command  echo '<content>' > <repo_path>/<file_path>  :
\* the tree after it and whether it ended in error.  A content with an odd
\* number of quote characters leaves a quote open (a syntax error); the
\* redirection fails when the directory of the target does not exist; echo
\* ends what it writes with a newline.
ShellEcho(fs, p, c) ==
    IF Quotes(c) % 2 = 1 THEN [fs |-> fs, error |-> TRUE]
    ELSE IF ~ParentExists(fs, p) THEN [fs |-> fs, error |-> TRUE]
    ELSE [fs |-> WriteFile(fs, p, Unquote(c) \o <<"\n">>), error |-> FALSE]

\* the shell command  rm -f <repo_path>/<file_path>
ShellRm(fs, p) == [fs |-> RemoveFile(fs, p), error |-> FALSE]

-----------------------------------------------------------------------------
(* implement_transformations.                                              *)
(* A call is the record                                                    *)
(*   kind   "remote" when self.e2b_session is set, else "local"            *)
(*   fs     the repository tree of that environment                        *)
(*   transformations, i   the plan and the index of the next entry         *)
(*   implemented_files    the list built by the loop                       *)
(*   raised, error_path   an exception left the loop; the path its text    *)
(*                        names ("" when it names none)                    *)
(*   log    per entry attempted, whether its operation failed              *)

\* what the remote service does with one run_code call
ServiceOutcomes == {"ok", "raise"}

\* the body of the loop against the remote environment; o is what the
\* service does with the call.  The result of run_code is not looked at.
RemoteEntry(fs, t, o) ==
    IF t.operation \in {"create", "modify"}
    THEN IF o = "raise" THEN [fs |-> fs, raised |-> TRUE, failed |-> TRUE, error_path |-> ""]
         ELSE LET r == ShellEcho(fs, RemotePath(t.file_path), t.content)
              IN  [fs |-> r.fs, raised |-> FALSE, failed |-> r.error, error_path |-> ""]
    ELSE IF t.operation = "delete"
    THEN IF o = "raise" THEN [fs |-> fs, raised |-> TRUE, failed |-> TRUE, error_path |-> ""]
         ELSE LET r == ShellRm(fs, RemotePath(t.file_path))
              IN  [fs |-> r.fs, raised |-> FALSE, failed |-> r.error, error_path |-> ""]
    ELSE [fs |-> fs, raised |-> FALSE, failed |-> FALSE, error_path |-> ""]

\* LocalEntry with os.remove not guarded by os.path.exists
LocalEntry_RemoveUnguarded(fs, t) ==
    LET full_path == LocalPath(t.file_path) IN
    IF t.operation = "create"
    THEN [fs |-> WriteFile(MakeDirs(fs, full_path), full_path, t.content),
          raised |-> FALSE, failed |-> FALSE, error_path |-> ""]
    ELSE IF t.operation = "modify"
    THEN IF ParentExists(fs, full_path)
         THEN [fs |-> WriteFile(fs, full_path, t.content),
               raised |-> FALSE, failed |-> FALSE, error_path |-> ""]
         ELSE [fs |-> fs, raised |-> TRUE, failed |-> TRUE, error_path |-> t.file_path]
    ELSE IF t.operation = "delete"
    THEN IF full_path \in DOMAIN fs.files
         THEN [fs |-> RemoveFile(fs, full_path),
               raised |-> FALSE, failed |-> FALSE, error_path |-> ""]
         ELSE [fs |-> fs, raised |-> TRUE, failed |-> TRUE, error_path |-> t.file_path]
    ELSE [fs |-> fs, raised |-> FALSE, failed |-> FALSE, error_path |-> ""]

\* the body of the loop against the local environment
LocalEntry(fs, t) ==
    LET full_path == LocalPath(t.file_path) IN
    IF t.operation = "create"
    THEN [fs |-> WriteFile(MakeDirs(fs, full_path), full_path, t.content),
          raised |-> FALSE, failed |-> FALSE, error_path |-> ""]
    ELSE IF t.operation = "modify"
    THEN IF ParentExists(fs, full_path)
         THEN [fs |-> WriteFile(fs, full_path, t.content),
               raised |-> FALSE, failed |-> FALSE, error_path |-> ""]
         ELSE \* open() raises FileNotFoundError, whose text names the full path
              [fs |-> fs, raised |-> TRUE, failed |-> TRUE, error_path |-> t.file_path]
    ELSE IF t.operation = "delete"
    THEN [fs |-> IF full_path \in DOMAIN fs.files THEN RemoveFile(fs, full_path) ELSE fs,
          raised |-> FALSE, failed |-> FALSE, error_path |-> ""]
    ELSE [fs |-> fs, raised |-> FALSE, failed |-> FALSE, error_path |-> ""]

ApplyEntry(kind, fs, t, o) ==
    IF kind = "remote" THEN RemoteEntry(fs, t, o) ELSE LocalEntry(fs, t)

NewCall(kind, fs, transformations) ==
    [kind |-> kind, fs |-> fs, transformations |-> transformations, i |-> 1,
     implemented_files |-> <<>>, raised |-> FALSE, error_path |-> "", log |-> <<>>]

CallOver(c) == c.raised \/ c.i > Len(c.transformations)

\* one iteration of the loop
LoopStep(c, o) ==
    LET t == c.transformations[c.i]
        r == ApplyEntry(c.kind, c.fs, t, o)
    IN  [c EXCEPT !.fs = r.fs,
                  !.i = IF r.raised THEN @ ELSE @ + 1,
                  !.implemented_files = IF r.raised THEN @ ELSE Append(@, t.file_path),
                  !.raised = r.raised,
                  !.error_path = r.error_path,
                  !.log = Append(@, r.failed)]

RECURSIVE RunLoop(_, _)
\* the whole loop, os[j] being what the service does with entry j
RunLoop(c, os) ==
    IF CallOver(c) THEN c ELSE RunLoop(LoopStep(c, os[c.i]), os)

\* what implement_transformations hands its caller: the list on a normal
\* return; RuntimeError(f"Failed to implement transformations: {e}") otherwise,
\* and the list built so far is dropped with the frame
ImplementResult(c) ==
    IF c.raised
    THEN [ok |-> FALSE, implemented_files |-> <<>>, error_path |-> c.error_path]
    ELSE [ok |-> TRUE, implemented_files |-> c.implemented_files, error_path |-> ""]

-----------------------------------------------------------------------------
(* CodeTransformationPlatform: the other stages.                           *)
(* A platform and the resources behind it are part of a run's record:      *)
(*   e2b_session, workspace_path   the attributes (None or a handle)       *)
(*   sandbox   "none" | "open" | "closed"     the remote session           *)
(*   tmpdir    "none" | "exists" | "removed"  the local scratch directory  *)
(*   env_why   how create_execution_environment went                       *)
(*   fs, git   the checkout the stages work on and the version-control     *)
(*             sub-steps done in it                                        *)

\* __init__ raises ValueError when neither the argument nor the environment
\* gives an OpenAI key
InitRaises(c, openai_token) == ~openai_token /\ ~c.OPENAI_API_KEY

\* what Python takes for false among the values a key may have
Falsy(x) == x \in {None, ""}

\* os.getenv of a key the settings hold or do not hold
Getenv(present) == IF present THEN "env-key" ELSE None

\* x or y
Or(x, y) == IF Falsy(x) THEN y ELSE x

\* __init__ looking at its argument only
Construct_ArgumentOnly(c, openai_api_key, e2b_api_key, openai_available) ==
    IF Falsy(openai_api_key)
    THEN [raised |-> TRUE, error |-> "ValueError", p |-> None]
    ELSE [raised |-> FALSE, error |-> "",
          p |-> [openai_api_key |-> openai_api_key,
                 e2b_api_key |-> Or(e2b_api_key, Getenv(c.E2B_API_KEY)),
                 openai_client |-> IF openai_available THEN "client" ELSE None,
                 github_client |-> None, e2b_session |-> None,
                 workspace_path |-> None]]

\* CodeTransformationPlatform.__init__
Construct(c, openai_api_key, e2b_api_key, openai_available) ==
    LET key == Or(openai_api_key, Getenv(c.OPENAI_API_KEY))
    IN  IF Falsy(key)
        THEN [raised |-> TRUE, error |-> "ValueError", p |-> None]
        ELSE [raised |-> FALSE, error |-> "",
              p |-> [openai_api_key |-> key,
                     e2b_api_key |-> Or(e2b_api_key, Getenv(c.E2B_API_KEY)),
                     openai_client |-> IF openai_available THEN "client" ELSE None,
                     github_client |-> None, e2b_session |-> None,
                     workspace_path |-> None]]

\* setup_github_connection raises RuntimeError when PyGithub is missing
SetupGithubRaises(c) == ~c.GITHUB_AVAILABLE

\* what the remote service does when a sandbox is asked for
SandboxOutcomes == {"ok", "ctor_raise", "enter_raise"}

LocalFallback(p, why) ==
    [p EXCEPT !.workspace_path = "tmpdir", !.tmpdir = "exists", !.env_why = why]

\* create_execution_environment; raised is whether the call raised
CreateExecutionEnvironment(c, p, o) ==
    IF ~c.E2B_AVAILABLE
    THEN [p |-> LocalFallback(p, "nolib"), raised |-> FALSE]
    ELSE IF ~c.E2B_API_KEY
    THEN [p |-> LocalFallback(p, "nokey"), raised |-> FALSE]
    ELSE IF o = "ctor_raise"
    THEN [p |-> LocalFallback(p, "ctor"), raised |-> FALSE]
    ELSE IF o = "enter_raise"
    THEN [p |-> LocalFallback([p EXCEPT !.e2b_session = "sandbox", !.sandbox = "open"],
                              "enter"),
          raised |-> FALSE]
    ELSE [p |-> [p EXCEPT !.e2b_session = "sandbox", !.sandbox = "open",
                          !.env_why = "remote_ok"],
          raised |-> FALSE]

\* create_execution_environment gets as far as awaiting __aenter__: the
\* library and the key are there and Sandbox(api_key=...) returned
Awaits(c, o) == c.E2B_AVAILABLE /\ c.E2B_API_KEY /\ o # "ctor_raise"

\* the platform while __aenter__ is awaited: self.e2b_session is assigned
Parked(p) == [p EXCEPT !.e2b_session = "sandbox", !.sandbox = "open"]

\* the branch every stage takes: if self.e2b_session: ... else: ...
Kind(p) == IF p.e2b_session # None THEN "remote" ELSE "local"

\* what a command does: it succeeds, it ends in error, or the call raises
CommandOutcomes == {"ok", "error", "raise"}

\* download_repository: the remote branch does not look at the result of
\* run_code; the local branch runs git clone with check=True
DownloadRepository(p, o) ==
    IF Kind(p) = "remote"
    THEN IF o = "raise" THEN [p |-> p, raised |-> TRUE]
         ELSE [p |-> [p EXCEPT !.fs = IF o = "ok" THEN FreshRepo ELSE NoRepo],
               raised |-> FALSE]
    ELSE IF o = "ok" THEN [p |-> [p EXCEPT !.fs = FreshRepo], raised |-> FALSE]
         ELSE [p |-> p, raised |-> TRUE]

\* examine_codebase: os.walk reports nothing it cannot read; run_code may raise
ExamineCodebase(p, o) ==
    [p |-> p, raised |-> Kind(p) = "remote" /\ o = "raise"]

\* the sub-steps of commit_and_publish, in the order they are run
GitSteps(kind) ==
    IF kind = "remote" THEN <<"cd", "add", "commit", "checkout", "push">>
    ELSE <<"add", "commit", "checkout", "push">>

\* commit_and_publish without check=True and without the look at result.error
CommitAndPublish_Unchecked(p, k) ==
    LET steps == GitSteps(Kind(p))
    IN  IF k = 0 THEN [p |-> [p EXCEPT !.git = steps], raised |-> FALSE]
        ELSE [p |-> [p EXCEPT !.git = SubSeq(steps, 1, k - 1)], raised |-> FALSE]

\* commit_and_publish; k is the sub-step that fails (0: none does).  A remote
\* command that ends in error and a local one that exits non-zero both raise.
CommitAndPublish(p, k) ==
    LET steps == GitSteps(Kind(p))
    IN  IF k = 0 THEN [p |-> [p EXCEPT !.git = steps], raised |-> FALSE]
        ELSE [p |-> [p EXCEPT !.git = SubSeq(steps, 1, k - 1)], raised |-> TRUE]

\* run_code_validation with no handler around the test command
RunCodeValidation_Propagates(p, o) ==
    IF o \in {"timeout", "raise"}
    THEN [raised |-> TRUE, status |-> "", validation_output |-> ""]
    ELSE [raised |-> FALSE, status |-> "completed",
          validation_output |-> IF o = "missing" THEN "No pytest found" ELSE "report"]

\* how a run of the test command ends
ValidationOutcomes == {"pass", "fail", "missing", "timeout", "raise"}

\* run_code_validation.  Remote: one command, `pytest || echo 'No pytest
\* found'`, with no time bound of its own; a call of run_code that raises
\* (a timeout of the service included) is caught by the outer handler.
\* Local: subprocess.run with timeout=60; TimeoutExpired and
\* FileNotFoundError are caught next to the call, anything else by the outer
\* handler; the exit status of the command is not looked at.
RunCodeValidation(p, o) ==
    IF Kind(p) = "remote"
    THEN IF o \in {"timeout", "raise"}
         THEN [raised |-> FALSE, status |-> "failed",
               validation_output |-> "Validation execution failed"]
         ELSE [raised |-> FALSE, status |-> "completed",
               validation_output |-> IF o = "pass" THEN "report" ELSE "No pytest found"]
    ELSE IF o = "raise"
         THEN [raised |-> FALSE, status |-> "failed",
               validation_output |-> "Validation execution failed"]
         ELSE [raised |-> FALSE, status |-> "completed",
               validation_output |-> IF o = "timeout" THEN "Validation timed out"
                                     ELSE IF o = "missing" THEN "No pytest found"
                                     ELSE "report"]

\* cleanup_resources: an exception of __aexit__ skips the removal of the
\* directory and is swallowed; the removal takes the local checkout with it
\* (the remote one lies in the sandbox)
CleanupResources(p, o) ==
    LET removes == p.workspace_path # None /\ p.tmpdir = "exists"
    IN  IF p.e2b_session # None /\ o = "raise" THEN p
        ELSE [p EXCEPT !.sandbox = IF p.e2b_session # None THEN "closed" ELSE @,
                       !.tmpdir = IF removes THEN "removed" ELSE @,
                       !.fs = IF removes /\ Kind(p) = "local" THEN RemoveTree(@) ELSE @]

-----------------------------------------------------------------------------
(* The web front end: the session store and event_generator.               *)
(* A run is one event_generator.  pc names the place it is suspended at:   *)
(*   y1 .. y6    the status_update that opens step 1 .. 6                  *)
(*   y1b .. y5b  the event that closes step 1 .. 5                         *)
(*   y7          deployment_complete                                       *)
(*   yerr        an error event                                            *)
(*   aenter      inside create_execution_environment, at                   *)
(*               await self.e2b_session.__aenter__()                       *)
(*   done        the generator returned                                    *)
(*   closed      it was closed at a yield                                  *)
(*   cancelled   its task was cancelled while it waited at aenter          *)
(* calls lists the platform stages the run has called, failed_at the stage *)
(* whose exception reached the handler, applied_all whether                *)
(* implement_transformations returned the path of every entry of the plan. *)

\* "total_steps": 6 of every event that carries a step
TotalSteps == 6

Event(event, step, status) == [event |-> event, step |-> step, status |-> status]

ErrorEvent == Event("error", 0, "error")

NewRun(session_id) ==
    [pc |-> "start", session_id |-> session_id, session_data |-> 0,
     e2b_session |-> None, workspace_path |-> None,
     sandbox |-> "none", tmpdir |-> "none", env_why |-> "",
     fs |-> NoRepo, git |-> <<>>,
     transformations |-> <<>>, implemented_files |-> <<>>,
     apply_log |-> <<>>, error_path |-> "", applied_all |-> FALSE,
     events |-> <<>>, failed_at |-> "", calls |-> <<>>]

Suspended == {"y1", "y1b", "y2", "y2b", "y3", "y3b", "y4", "y4b", "y5", "y5b",
              "y6", "y7", "yerr"}

\* the yield that follows the event closing a step: the status_update that
\* opens the next step
Announcement(pc) ==
    CASE pc = "y1b" -> [pc |-> "y2", event |-> Event("status_update", 2, "analyzing")]
      [] pc = "y2b" -> [pc |-> "y3", event |-> Event("status_update", 3, "analyzing")]
      [] pc = "y3b" -> [pc |-> "y4", event |-> Event("status_update", 4, "generating")]
      [] pc = "y4b" -> [pc |-> "y5", event |-> Event("status_update", 5, "executing")]
      [] pc = "y5b" -> [pc |-> "y6", event |-> Event("status_update", 6, "deploying")]

\* the model outputs the generation stage is given in the pipeline
Responses ==
    { <<"w">> \o ObjectText(<<"create_a">>) \o <<"w">>,
      ObjectText(<<"create_a", "modify_b", "delete_a">>),
      ObjectText(<<"rename_a">>),
      ObjectText(<<"create_a", "no_op">>),
      <<"w", "w">> }

\* the generator is over: the locals of its frame are gone; the checkout,
\* the resources the platform held, what was pushed and what was sent to the
\* subscriber stay
Over(run, pc) ==
    [run EXCEPT !.pc = pc, !.transformations = <<>>,
                !.implemented_files = <<>>, !.apply_log = <<>>, !.error_path = ""]

\* the handler without its yield
Handler_NoErrorEvent(r, run, stage) ==
    /\ runs' = [runs EXCEPT ![r] = [run EXCEPT !.pc = "yerr", !.failed_at = stage]]
    /\ session_objs' = [session_objs EXCEPT ![active_sessions[run.session_id]].status = "failed"]

\* except Exception as e: the store's entry of the id is marked failed and
\* the error event is yielded
Handler(r, run, stage) ==
    /\ runs' = [runs EXCEPT ![r] = [run EXCEPT !.pc = "yerr", !.failed_at = stage,
                                               !.events = Append(@, ErrorEvent)]]
    /\ session_objs' =
           IF run.session_id \in DOMAIN active_sessions
           THEN [session_objs EXCEPT ![active_sessions[run.session_id]].status = "failed"]
           ELSE session_objs

\* the segment ran to its next yield
Proceed(r, run, pc, events) ==
    /\ runs' = [runs EXCEPT ![r] = [run EXCEPT !.pc = pc, !.events = @ \o events]]
    /\ UNCHANGED session_objs

\* POST /api/generate; elapsed is the time that went by since the clock was
\* last read (session ids are the only readers of the clock, and time is
\* counted from the first request)
StartGeneration(openai_token, elapsed) ==
    /\ Len(session_objs) < MaxSessions
    /\ now + elapsed <= MaxTicks * (SESSION_TIMEOUT + 1)
    /\ now' = now + elapsed
    /\ session_objs' = Append(session_objs,
                              [openai_token |-> openai_token, status |-> "pending"])
    /\ active_sessions' =
           [id \in (DOMAIN active_sessions) \cup {now'} |->
                IF id = now' THEN Len(session_objs) + 1 ELSE active_sessions[id]]
    /\ UNCHANGED <<cfg, runs, ap, pp, cli, mk>>

\* GET /api/stream/{session_id}: the generator is made and runs to its first yield
Subscribe(session_id) ==
    /\ Len(runs) < MaxRuns
    /\ LET r == Len(runs) + 1
           run0 == NewRun(session_id)
       IN  IF session_id \notin DOMAIN active_sessions
           THEN /\ runs' = Append(runs, [run0 EXCEPT !.pc = "yerr",
                                                     !.events = <<ErrorEvent>>])
                /\ UNCHANGED session_objs
           ELSE LET d == active_sessions[session_id]
                    run == [run0 EXCEPT !.session_data = d]
                IN  IF InitRaises(cfg, session_objs[d].openai_token)
                       \/ SetupGithubRaises(cfg)
                    THEN /\ runs' = Append(runs, [run EXCEPT !.pc = "yerr",
                                                             !.failed_at = "init",
                                                             !.events = <<ErrorEvent>>])
                         /\ session_objs' = [session_objs EXCEPT ![d].status = "failed"]
                    ELSE /\ runs' = Append(runs,
                               [run EXCEPT !.pc = "y1",
                                           !.events = <<Event("status_update", 1, "initializing")>>])
                         /\ session_objs' = [session_objs EXCEPT ![d].status = "running"]
    /\ UNCHANGED <<cfg, now, active_sessions, ap, pp, cli, mk>>

\* step 1: create_execution_environment, up to the await of __aenter__ when
\* it gets there (self.e2b_session is assigned by then), else to its return
StepProvision(r, o) ==
    /\ runs[r].pc = "y1"
    /\ LET run == [runs[r] EXCEPT !.calls = Append(@, "provision")]
           res == CreateExecutionEnvironment(cfg, run, o)
       IN  IF Awaits(cfg, o)
           THEN Proceed(r, Parked(run), "aenter", <<>>)
           ELSE IF res.raised THEN Handler(r, res.p, "provision")
           ELSE Proceed(r, res.p, "y1b", <<Event("status_update", 1, "initializing")>>)
    /\ UNCHANGED <<cfg, now, active_sessions, ap, pp, cli, mk>>

\* __aenter__ returned or raised: the rest of create_execution_environment
StepEntered(r, o) ==
    /\ runs[r].pc = "aenter"
    /\ LET res == CreateExecutionEnvironment(cfg, runs[r], o)
       IN  IF res.raised THEN Handler(r, res.p, "provision")
           ELSE Proceed(r, res.p, "y1b", <<Event("status_update", 1, "initializing")>>)
    /\ UNCHANGED <<cfg, now, active_sessions, ap, pp, cli, mk>>

\* the task is cancelled while __aenter__ is awaited: CancelledError is no
\* Exception, neither the handler of create_execution_environment nor the
\* one of the generator runs
Cancel(r) ==
    /\ runs[r].pc = "aenter"
    /\ runs' = [runs EXCEPT ![r] = Over(@, "cancelled")]
    /\ UNCHANGED <<cfg, now, session_objs, active_sessions, ap, pp, cli, mk>>

\* resumed at the event that closed a step, the generator yields the
\* status_update that opens the next one
StepAnnounce(r) ==
    /\ runs[r].pc \in {"y1b", "y2b", "y3b", "y4b", "y5b"}
    /\ Proceed(r, runs[r], Announcement(runs[r].pc).pc, <<Announcement(runs[r].pc).event>>)
    /\ UNCHANGED <<cfg, now, active_sessions, ap, pp, cli, mk>>

\* step 2: download_repository
StepDownload(r, o) ==
    /\ runs[r].pc = "y2"
    /\ LET run == [runs[r] EXCEPT !.calls = Append(@, "download")]
           res == DownloadRepository(run, o)
       IN  IF res.raised THEN Handler(r, res.p, "download")
           ELSE Proceed(r, res.p, "y2b", <<Event("status_update", 2, "analyzing")>>)
    /\ UNCHANGED <<cfg, now, active_sessions, ap, pp, cli, mk>>

\* step 3: examine_codebase
StepExamine(r, o) ==
    /\ runs[r].pc = "y3"
    /\ LET run == [runs[r] EXCEPT !.calls = Append(@, "examine")]
           res == ExamineCodebase(run, o)
       IN  IF res.raised THEN Handler(r, res.p, "examine")
           ELSE Proceed(r, res.p, "y3b", <<Event("analysis_complete", 3, "analyzing")>>)
    /\ UNCHANGED <<cfg, now, active_sessions, ap, pp, cli, mk>>

\* step 4: create_code_transformations; the model call raises or answers
StepGenerate(r, api_raises, content) ==
    /\ runs[r].pc = "y4"
    /\ LET run == [runs[r] EXCEPT !.calls = Append(@, "generate")]
           res == ParsePlan(content)
       IN  IF api_raises \/ ~res.ok THEN Handler(r, run, "generate")
           ELSE Proceed(r, [run EXCEPT !.transformations = res.transformations], "y4b",
                        <<Event("modifications_generated", 4, "generating")>>)
    /\ UNCHANGED <<cfg, now, active_sessions, ap, pp, cli, mk>>

\* step 5: implement_transformations
StepApply(r, os) ==
    /\ runs[r].pc = "y5"
    /\ LET run == [runs[r] EXCEPT !.calls = Append(@, "apply")]
           call == RunLoop(NewCall(Kind(run), run.fs, run.transformations), os)
           res == ImplementResult(call)
           after == [run EXCEPT !.fs = call.fs, !.apply_log = call.log,
                                !.implemented_files = res.implemented_files,
                                !.error_path = res.error_path,
                                !.applied_all =
                                    /\ res.ok
                                    /\ res.implemented_files =
                                           [j \in 1..Len(run.transformations) |->
                                                run.transformations[j].file_path]]
       IN  IF ~res.ok THEN Handler(r, after, "apply")
           ELSE Proceed(r, after, "y5b", <<Event("modifications_applied", 5, "executing")>>)
    /\ UNCHANGED <<cfg, now, active_sessions, ap, pp, cli, mk>>

\* step 6: commit_and_publish
StepPublish(r, k) ==
    /\ runs[r].pc = "y6"
    /\ LET run == [runs[r] EXCEPT !.calls = Append(@, "publish")]
           res == CommitAndPublish(run, k)
       IN  IF res.raised THEN Handler(r, res.p, "publish")
           ELSE Proceed(r, res.p, "y7",
                        <<Event("deployment_complete", 6, "completed")>>)
    /\ UNCHANGED <<cfg, now, active_sessions, ap, pp, cli, mk>>

\* after deployment_complete: session_data["status"] = "completed"
StepComplete(r) ==
    /\ runs[r].pc = "y7"
    /\ runs' = [runs EXCEPT ![r] = Over(@, "done")]
    /\ session_objs' = [session_objs EXCEPT ![runs[r].session_data].status = "completed"]
    /\ UNCHANGED <<cfg, now, active_sessions, ap, pp, cli, mk>>

\* after an error event the generator returns
StepAfterError(r) ==
    /\ runs[r].pc = "yerr"
    /\ runs' = [runs EXCEPT ![r] = Over(@, "done")]
    /\ UNCHANGED <<cfg, now, session_objs, active_sessions, ap, pp, cli, mk>>

\* the subscriber goes away: the generator is closed at the yield it is
\* suspended at (GeneratorExit / CancelledError are no Exception)
Disconnect(r) ==
    /\ runs[r].pc \in Suspended
    /\ runs' = [runs EXCEPT ![r] = Over(@, "closed")]
    /\ UNCHANGED <<cfg, now, session_objs, active_sessions, ap, pp, cli, mk>>

-----------------------------------------------------------------------------
(* main(): the command-line pipeline.  pc names the statement main is at;  *)
(* "finally" is the finally block, reached from the last stage and from    *)
(* the except block alike; "aenter" and "aexit": main waits inside         *)
(* create_execution_environment / cleanup_resources for __aenter__ /       *)
(* __aexit__; "exit": main returned; "raised": it ended with the           *)
(* CancelledError held in raising; "crashed": the constructor raised       *)
(* outside the try block.  test_run is how the test command of the         *)
(* validation stage ended, cleanups what __aexit__ did in each call of     *)
(* cleanup_resources ("cancel": the call was cancelled while it waited).   *)

NewPlatform ==
    [e2b_session |-> None, workspace_path |-> None, sandbox |-> "none",
     tmpdir |-> "none", env_why |-> "", fs |-> NoRepo, git |-> <<>>]

NoValidation == [raised |-> FALSE, status |-> "", validation_output |-> ""]

IdleMain ==
    [pc |-> "start", p |-> NewPlatform, transformations |-> <<>>,
     implemented_files |-> <<>>, test_run |-> "", validation |-> NoValidation,
     failed_at |-> "", calls |-> <<>>, cleanups |-> <<>>, raising |-> ""]

\* except Exception as e: print, then the finally block
MainFail(c, stage) == [c EXCEPT !.pc = "finally", !.failed_at = stage]

\* platform = CodeTransformationPlatform(); setup_github_connection
MainStart ==
    /\ cli.pc = "start"
    /\ cli' = IF InitRaises(cfg, FALSE) THEN [cli EXCEPT !.pc = "crashed"]
              ELSE IF SetupGithubRaises(cfg) THEN MainFail(cli, "init")
              ELSE [cli EXCEPT !.pc = "provision"]
    /\ UNCHANGED <<cfg, now, session_objs, active_sessions, runs, ap, pp, mk>>

\* await platform.create_execution_environment(), up to the await of
\* __aenter__ when it gets there, else to its return
MainProvision(o) ==
    /\ cli.pc = "provision"
    /\ LET c == [cli EXCEPT !.calls = Append(@, "provision")]
           res == CreateExecutionEnvironment(cfg, c.p, o)
       IN  cli' = IF Awaits(cfg, o) THEN [c EXCEPT !.p = Parked(@), !.pc = "aenter"]
                  ELSE IF res.raised THEN MainFail([c EXCEPT !.p = res.p], "provision")
                  ELSE [c EXCEPT !.p = res.p, !.pc = "select"]
    /\ UNCHANGED <<cfg, now, session_objs, active_sessions, runs, ap, pp, mk>>

\* __aenter__ returned or raised: the rest of create_execution_environment
MainEntered(o) ==
    /\ cli.pc = "aenter"
    /\ LET res == CreateExecutionEnvironment(cfg, cli.p, o)
       IN  cli' = IF res.raised THEN MainFail([cli EXCEPT !.p = res.p], "provision")
                  ELSE [cli EXCEPT !.p = res.p, !.pc = "select"]
    /\ UNCHANGED <<cfg, now, session_objs, active_sessions, runs, ap, pp, mk>>

\* main is cancelled while __aenter__ is awaited: CancelledError passes the
\* except Exception of create_execution_environment and of main, and the
\* finally block runs with the exception pending
MainCancel ==
    /\ cli.pc = "aenter"
    /\ cli' = [cli EXCEPT !.pc = "finally", !.raising = "CancelledError"]
    /\ UNCHANGED <<cfg, now, session_objs, active_sessions, runs, ap, pp, mk>>

\* retrieve_user_repositories and the choice typed in by the user
MainSelect(ok) ==
    /\ cli.pc = "select"
    /\ cli' = IF ok THEN [cli EXCEPT !.pc = "download"] ELSE MainFail(cli, "select")
    /\ UNCHANGED <<cfg, now, session_objs, active_sessions, runs, ap, pp, mk>>

MainDownload(o) ==
    /\ cli.pc = "download"
    /\ LET c == [cli EXCEPT !.calls = Append(@, "download")]
           res == DownloadRepository(c.p, o)
       IN  cli' = IF res.raised THEN MainFail([c EXCEPT !.p = res.p], "download")
                  ELSE [c EXCEPT !.p = res.p, !.pc = "examine"]
    /\ UNCHANGED <<cfg, now, session_objs, active_sessions, runs, ap, pp, mk>>

MainExamine(o) ==
    /\ cli.pc = "examine"
    /\ LET c == [cli EXCEPT !.calls = Append(@, "examine")]
           res == ExamineCodebase(c.p, o)
       IN  cli' = IF res.raised THEN MainFail(c, "examine")
                  ELSE [c EXCEPT !.pc = "generate"]
    /\ UNCHANGED <<cfg, now, session_objs, active_sessions, runs, ap, pp, mk>>

MainGenerate(api_raises, content) ==
    /\ cli.pc = "generate"
    /\ LET c == [cli EXCEPT !.calls = Append(@, "generate")]
           res == ParsePlan(content)
       IN  cli' = IF api_raises \/ ~res.ok THEN MainFail(c, "generate")
                  ELSE [c EXCEPT !.transformations = res.transformations, !.pc = "apply"]
    /\ UNCHANGED <<cfg, now, session_objs, active_sessions, runs, ap, pp, mk>>

MainApply(os) ==
    /\ cli.pc = "apply"
    /\ LET c == [cli EXCEPT !.calls = Append(@, "apply")]
           call == RunLoop(NewCall(Kind(c.p), c.p.fs, c.transformations), os)
           res == ImplementResult(call)
           after == [c EXCEPT !.p.fs = call.fs,
                              !.implemented_files = res.implemented_files]
       IN  cli' = IF ~res.ok THEN MainFail(after, "apply")
                  ELSE [after EXCEPT !.pc = "validate"]
    /\ UNCHANGED <<cfg, now, session_objs, active_sessions, runs, ap, pp, mk>>

\* validation_results = await platform.run_code_validation(repo_path)
MainValidate(o) ==
    /\ cli.pc = "validate"
    /\ LET c == [cli EXCEPT !.calls = Append(@, "validate"), !.test_run = o]
           res == RunCodeValidation(c.p, o)
       IN  cli' = IF res.raised THEN MainFail(c, "validate")
                  ELSE [c EXCEPT !.validation = res, !.pc = "publish"]
    /\ UNCHANGED <<cfg, now, session_objs, active_sessions, runs, ap, pp, mk>>

MainPublish(k) ==
    /\ cli.pc = "publish"
    /\ LET c == [cli EXCEPT !.calls = Append(@, "publish")]
           res == CommitAndPublish(c.p, k)
       IN  cli' = IF res.raised THEN MainFail([c EXCEPT !.p = res.p], "publish")
                  ELSE [c EXCEPT !.p = res.p, !.pc = "finally"]
    /\ UNCHANGED <<cfg, now, session_objs, active_sessions, runs, ap, pp, mk>>

\* how main ends after the finally block: it returns, or the exception that
\* was pending goes on
MainEnd(c) == IF c.raising # "" THEN "raised" ELSE "exit"

\* finally: await platform.cleanup_resources(), up to the await of __aexit__
\* when there is a session, else to its return
MainCleanup(o) ==
    /\ cli.pc = "finally"
    /\ cli' = IF cli.p.e2b_session # None THEN [cli EXCEPT !.pc = "aexit"]
              ELSE [cli EXCEPT !.p = CleanupResources(cli.p, o), !.pc = MainEnd(cli),
                               !.cleanups = Append(@, o)]
    /\ UNCHANGED <<cfg, now, session_objs, active_sessions, runs, ap, pp, mk>>

\* __aexit__ returned or raised: the rest of cleanup_resources
MainExited(o) ==
    /\ cli.pc = "aexit"
    /\ cli' = [cli EXCEPT !.p = CleanupResources(cli.p, o), !.pc = MainEnd(cli),
                          !.cleanups = Append(@, o)]
    /\ UNCHANGED <<cfg, now, session_objs, active_sessions, runs, ap, pp, mk>>

\* main is cancelled while __aexit__ is awaited: nothing is released and
\* main ends with CancelledError
MainCancelCleanup ==
    /\ cli.pc = "aexit"
    /\ cli' = [cli EXCEPT !.pc = "raised", !.raising = "CancelledError",
                          !.cleanups = Append(@, "cancel")]
    /\ UNCHANGED <<cfg, now, session_objs, active_sessions, runs, ap, pp, mk>>

IdleConstruct ==
    [openai_api_key |-> None, e2b_api_key |-> None, openai_available |-> TRUE,
     done |-> FALSE, result |-> [raised |-> FALSE, error |-> "", p |-> None]]

Config(e2b, key, github, openai) ==
    [E2B_AVAILABLE |-> e2b, E2B_API_KEY |-> key,
     GITHUB_AVAILABLE |-> github, OPENAI_API_KEY |-> openai]

\* the configurations of the process: which optional libraries imported and
\* which keys the environment holds
Configs ==
    { Config(TRUE, TRUE, TRUE, FALSE),
      Config(TRUE, FALSE, TRUE, FALSE),
      Config(FALSE, FALSE, TRUE, FALSE),
      Config(FALSE, FALSE, TRUE, TRUE),
      Config(FALSE, FALSE, FALSE, FALSE) }

IdleCall == NewCall("local", FreshRepo, <<>>)

NoPlan == [ok |-> FALSE, transformations |-> <<>>]

IdleParse == [pre |-> <<>>, bodies |-> <<>>, obj |-> <<>>, post |-> <<>>,
              parsed |-> FALSE, whole |-> NoPlan, alone |-> NoPlan]

Init ==
    /\ cfg \in Configs
    /\ now = 0
    /\ session_objs = <<>>
    /\ active_sessions = [id \in {} |-> 0]
    /\ runs = <<>>
    /\ ap = IdleCall
    /\ pp = IdleParse
    /\ cli = IdleMain
    /\ mk = IdleConstruct

UnknownId == -1

Elapsed == IF session_objs = <<>> THEN {0} ELSE {0, SESSION_TIMEOUT + 1}

Next ==
    \/ \E tok \in BOOLEAN, elapsed \in Elapsed : StartGeneration(tok, elapsed)
    \/ \E id \in (DOMAIN active_sessions) \cup {UnknownId} : Subscribe(id)
    \/ \E r \in 1..Len(runs) :
          \/ \E o \in SandboxOutcomes : StepProvision(r, o)
          \/ \E o \in {"ok", "enter_raise"} : StepEntered(r, o)
          \/ Cancel(r)
          \/ StepAnnounce(r)
          \/ \E o \in CommandOutcomes : StepDownload(r, o)
          \/ \E o \in CommandOutcomes : StepExamine(r, o)
          \/ \E raises \in BOOLEAN, content \in Responses : StepGenerate(r, raises, content)
          \/ \E os \in [1..Len(runs[r].transformations) -> ServiceOutcomes] : StepApply(r, os)
          \/ \E k \in 0..Len(GitSteps(Kind(runs[r]))) : StepPublish(r, k)
          \/ StepComplete(r)
          \/ StepAfterError(r)
          \/ Disconnect(r)

Spec == Init /\ [][Next]_vars

\* the pipeline of one request: the same steps, with the sessions created
\* and the subscriptions made bounded together
NextPipeline ==
    /\ Next
    /\ Len(session_objs') + Len(runs') <= MaxPipelineLoad

SpecPipeline == Init /\ [][NextPipeline]_vars

-----------------------------------------------------------------------------
(* main() on its own *)

\* the settings main() is started under: with and without the OpenAI key,
\* PyGithub, the E2B library and the E2B key
MainConfigs ==
    { Config(TRUE, TRUE, TRUE, TRUE),
      Config(TRUE, FALSE, TRUE, TRUE),
      Config(FALSE, FALSE, TRUE, TRUE),
      Config(TRUE, TRUE, FALSE, TRUE),
      Config(TRUE, TRUE, TRUE, FALSE) }

AexitOutcomes == {"ok", "raise"}

InitMain ==
    /\ cfg \in MainConfigs
    /\ now = 0
    /\ session_objs = <<>>
    /\ active_sessions = [id \in {} |-> 0]
    /\ runs = <<>>
    /\ ap = IdleCall
    /\ pp = IdleParse
    /\ cli = IdleMain
    /\ mk = IdleConstruct

NextMain ==
    \/ MainStart
    \/ \E o \in SandboxOutcomes : MainProvision(o)
    \/ \E o \in {"ok", "enter_raise"} : MainEntered(o)
    \/ MainCancel
    \/ \E ok \in BOOLEAN : MainSelect(ok)
    \/ \E o \in CommandOutcomes : MainDownload(o)
    \/ \E o \in CommandOutcomes : MainExamine(o)
    \/ \E api_raises \in BOOLEAN, content \in Responses :
           MainGenerate(api_raises, content)
    \/ \E os \in [1..Len(cli.transformations) -> ServiceOutcomes] : MainApply(os)
    \/ \E o \in ValidationOutcomes : MainValidate(o)
    \/ \E k \in 0..Len(GitSteps(Kind(cli.p))) : MainPublish(k)
    \/ \E o \in AexitOutcomes : MainCleanup(o)
    \/ \E o \in AexitOutcomes : MainExited(o)
    \/ MainCancelCleanup

SpecMain == InitMain /\ [][NextMain]_vars

-----------------------------------------------------------------------------
(* cleanup_resources on its own: a client that calls it any number of      *)
(* times on a platform that was not provisioned, whose provisioning was    *)
(* cancelled at the await of __aenter__, that was provisioned, or whose     *)
(* download stage has run or failed.  A call that is cancelled at the      *)
(* await of __aexit__ ends there.                                          *)

\* the platforms cleanup_resources may be called on under the settings c
Platforms(c) ==
    LET provisioned == {CreateExecutionEnvironment(c, NewPlatform, o).p :
                            o \in SandboxOutcomes}
        downloaded == {DownloadRepository(q, o).p :
                            q \in provisioned, o \in CommandOutcomes}
        cancelled == IF Awaits(c, "ok") THEN {Parked(NewPlatform)} ELSE {}
    IN  {NewPlatform} \cup cancelled \cup provisioned \cup downloaded

InitCleanup ==
    /\ cfg \in MainConfigs
    /\ now = 0
    /\ session_objs = <<>>
    /\ active_sessions = [id \in {} |-> 0]
    /\ runs = <<>>
    /\ ap = IdleCall
    /\ pp = IdleParse
    /\ mk = IdleConstruct
    /\ \E q \in Platforms(cfg) : cli = [IdleMain EXCEPT !.pc = "cleanup", !.p = q]

\* await platform.cleanup_resources(), once more: up to the await of
\* __aexit__ when there is a session, else to its return
CleanupCall(o) ==
    /\ cli.pc = "cleanup"
    /\ Len(cli.cleanups) < MaxCleanups
    /\ cli' = IF cli.p.e2b_session # None THEN [cli EXCEPT !.pc = "aexit"]
              ELSE [cli EXCEPT !.p = CleanupResources(cli.p, o),
                               !.cleanups = Append(@, o)]
    /\ UNCHANGED <<cfg, now, session_objs, active_sessions, runs, ap, pp, mk>>

\* __aexit__ returned or raised: the rest of the call
CleanupExited(o) ==
    /\ cli.pc = "aexit"
    /\ cli' = [cli EXCEPT !.p = CleanupResources(cli.p, o), !.pc = "cleanup",
                          !.cleanups = Append(@, o)]
    /\ UNCHANGED <<cfg, now, session_objs, active_sessions, runs, ap, pp, mk>>

\* the call is cancelled while __aexit__ is awaited: nothing is released
CleanupCancelled ==
    /\ cli.pc = "aexit"
    /\ cli' = [cli EXCEPT !.pc = "cleanup", !.cleanups = Append(@, "cancel")]
    /\ UNCHANGED <<cfg, now, session_objs, active_sessions, runs, ap, pp, mk>>

NextCleanup ==
    \/ \E o \in AexitOutcomes : CleanupCall(o)
    \/ \E o \in AexitOutcomes : CleanupExited(o)
    \/ CleanupCancelled

SpecCleanup == InitCleanup /\ [][NextCleanup]_vars

-----------------------------------------------------------------------------
(* The constructor on its own, over the arguments and settings it reads *)

KeyArguments == {None, "", "sk-arg"}

InitConstruct ==
    /\ cfg \in {Config(e2b, key, github, openai) : e2b \in {TRUE}, key \in BOOLEAN,
                                                    github \in {TRUE}, openai \in BOOLEAN}
    /\ now = 0
    /\ session_objs = <<>>
    /\ active_sessions = [id \in {} |-> 0]
    /\ runs = <<>>
    /\ ap = IdleCall
    /\ pp = IdleParse
    /\ cli = IdleMain
    /\ \E openai_api_key \in KeyArguments, e2b_api_key \in KeyArguments,
          openai_available \in BOOLEAN :
          mk = [IdleConstruct EXCEPT !.openai_api_key = openai_api_key,
                                     !.e2b_api_key = e2b_api_key,
                                     !.openai_available = openai_available]

DoConstruct ==
    /\ ~mk.done
    /\ mk' = [mk EXCEPT !.done = TRUE,
                        !.result = Construct(cfg, mk.openai_api_key, mk.e2b_api_key,
                                             mk.openai_available)]
    /\ UNCHANGED <<cfg, now, session_objs, active_sessions, runs, ap, pp, cli>>

NextConstruct == DoConstruct

SpecConstruct == InitConstruct /\ [][NextConstruct]_vars

-----------------------------------------------------------------------------
(* implement_transformations on its own: a call on a plan of up to         *)
(* MaxPlanLen entries, one iteration of the loop per step.  The remote     *)
(* checkout may be missing (download_repository does not look at the       *)
(* result of the remote clone); the local one is there when the call is    *)
(* reached.                                                                *)

PlanEntries ==
    {CodeModification(b) : b \in WellFormedBodies \cup EscapingBodies \cup {"rename_a"}}

Plans == SeqsUpTo(PlanEntries, MaxPlanLen)

InitApply ==
    /\ cfg = Config(TRUE, TRUE, TRUE, FALSE)
    /\ now = 0
    /\ session_objs = <<>>
    /\ active_sessions = [id \in {} |-> 0]
    /\ runs = <<>>
    /\ pp = IdleParse
    /\ cli = IdleMain
    /\ mk = IdleConstruct
    /\ \E kind \in {"remote", "local"}, plan \in Plans :
          \E fs \in (IF kind = "remote" THEN {FreshRepo, NoRepo} ELSE {FreshRepo}) :
             ap = NewCall(kind, fs, plan)

ApplyNext(o) ==
    /\ ~CallOver(ap)
    /\ ap' = LoopStep(ap, o)
    /\ UNCHANGED <<cfg, now, session_objs, active_sessions, runs, pp, cli, mk>>

NextApply == \E o \in ServiceOutcomes : ApplyNext(o)

SpecApply == InitApply /\ [][NextApply]_vars

-----------------------------------------------------------------------------
(* Plan extraction on its own: the model output is pre \o obj \o post,     *)
(* where obj is the text of an object listing up to MaxObjLen entries      *)
(* (shape "object"), that text cut short of its closing brace              *)
(* ("truncated") or the empty object ("empty"), and pre and post are up to *)
(* MaxProse lexemes of prose, braces among them.  whole is the result on   *)
(* the whole output, alone the result on obj.                              *)

ProseLexemes == {"w", "{", "}"}

Prose == SeqsUpTo(ProseLexemes, MaxProse)

Shaped(shape, bs) ==
    IF shape = "object" THEN ObjectText(bs)
    ELSE IF shape = "truncated" THEN SubSeq(ObjectText(bs), 1, Len(ObjectText(bs)) - 1)
    ELSE <<"{", "}">>

InitParse ==
    /\ cfg = Config(TRUE, TRUE, TRUE, FALSE)
    /\ now = 0
    /\ session_objs = <<>>
    /\ active_sessions = [id \in {} |-> 0]
    /\ runs = <<>>
    /\ ap = IdleCall
    /\ cli = IdleMain
    /\ mk = IdleConstruct
    /\ \E pre \in Prose, post \in Prose, bs \in SeqsUpTo(Bodies, MaxObjLen),
          shape \in {"object", "truncated", "empty"} :
          pp = [pre |-> pre, bodies |-> IF shape = "empty" THEN <<>> ELSE bs,
                obj |-> Shaped(shape, bs), post |-> post,
                parsed |-> FALSE, whole |-> NoPlan, alone |-> NoPlan]

Parse ==
    /\ ~pp.parsed
    /\ pp' = [pp EXCEPT !.parsed = TRUE,
                        !.whole = ParsePlan(pp.pre \o pp.obj \o pp.post),
                        !.alone = ParsePlan(pp.obj)]
    /\ UNCHANGED <<cfg, now, session_objs, active_sessions, runs, ap, cli, mk>>

NextParse == Parse

SpecParse == InitParse /\ [][NextParse]_vars

-----------------------------------------------------------------------------
(* Properties *)

Called(run, stage) == stage \in Range(run.calls)

AllStages == <<"provision", "download", "examine", "generate", "apply", "publish">>

\* C1: create_execution_environment never raises because the remote path is
\* unavailable: when the E2B library is missing, the key is absent or making
\* or entering the Sandbox raises, the call returns and the environment the
\* pipeline goes on with is a freshly created local scratch directory.
C1_FallbackIsLocal ==
    \A r \in 1..Len(runs) :
        Called(runs[r], "provision") =>
            /\ runs[r].failed_at # "provision"
            /\ (\/ ~cfg.E2B_AVAILABLE
                \/ ~cfg.E2B_API_KEY
                \/ runs[r].env_why \in {"ctor", "enter"}) =>
                   /\ runs[r].workspace_path = "tmpdir"
                   /\ runs[r].tmpdir # "none"
                   /\ Kind(runs[r]) = "local"

\* C1, its case: entering the Sandbox raised and the run went on to step 2
\* with the local directory
C1_Witness ==
    \E r \in 1..Len(runs) :
        /\ runs[r].pc = "y2"
        /\ runs[r].env_why = "enter"
        /\ runs[r].workspace_path = "tmpdir"

\* C2: a run that provisioned an environment releases it on every exit path
\* (remote session closed, local directory removed), and on a stage failure
\* before the failure event is reported.
C2_ReleasedOnEveryExit ==
    \A r \in 1..Len(runs) :
        (runs[r].pc \in {"yerr", "done"} /\ Called(runs[r], "provision")) =>
            /\ runs[r].sandbox # "open"
            /\ runs[r].tmpdir # "exists"

\* C3: when a stage fails, the session's entry in the store becomes failed
\* and the error is reported in that step, and the run calls no stage
\* afterwards; a download that leaves no checkout is a failed stage; and a
\* run that failed in the generation stage has called neither
\* implement_transformations nor commit_and_publish and has run no
\* version-control sub-step.
C3_FailureStopsPipeline ==
    [][\A r \in 1..Len(runs') :
          LET new == r > Len(runs)
              run == runs'[r]
          IN  /\ (run.failed_at # "" /\ (new \/ runs[r].failed_at = "")) =>
                    /\ session_objs'[active_sessions'[run.session_id]].status = "failed"
                    /\ run.pc = "yerr"
                    /\ run.events[Len(run.events)] = ErrorEvent
                    /\ run.calls # <<>> => run.calls[Len(run.calls)] = run.failed_at
              /\ (~new /\ runs[r].failed_at # "") =>
                    /\ run.calls = runs[r].calls
                    /\ run.git = runs[r].git
                    /\ run.failed_at = runs[r].failed_at
              /\ (~new /\ ~Called(runs[r], "download") /\ Called(run, "download")
                       /\ ~run.fs.cloned) =>
                    run.failed_at = "download"
              /\ run.failed_at = "generate" =>
                    /\ ~Called(run, "apply")
                    /\ ~Called(run, "publish")
                    /\ run.git = <<>>
      ]_vars

\* C3, its case: a run that failed in the generation stage has ended
C3_Witness ==
    \E r \in 1..Len(runs) :
        /\ runs[r].failed_at = "generate"
        /\ runs[r].pc = "done"
        /\ session_objs[runs[r].session_data].status = "failed"

\* C4: implement_transformations stops at the first entry whose operation
\* fails, in either environment: a failed entry is the last one attempted
\* and the call raises.
C4_StopsAtFirstFailure ==
    \A j \in 1..Len(ap.log) :
        ap.log[j] => (j = Len(ap.log) /\ ap.raised)

\* C5: when the second of three entries fails, the caller receives exactly
\* the first entry's path as the list of applied paths, with an error that
\* names the second entry's path.
C5_PartialApplicationReported ==
    \A r \in 1..Len(runs) :
        (/\ runs[r].failed_at = "apply"
         /\ runs[r].pc = "yerr"
         /\ Len(runs[r].transformations) = 3
         /\ runs[r].apply_log = <<FALSE, TRUE>>) =>
            /\ runs[r].implemented_files = <<runs[r].transformations[1].file_path>>
            /\ runs[r].error_path = runs[r].transformations[2].file_path

CreateAX == CodeModification("create_a")

DeleteA == CodeModification("delete_a")

\* C6: on a fresh checkout the plan [create a.txt with X, delete a.txt]
\* leaves a.txt absent and the plan [delete a.txt, create a.txt with X]
\* leaves a.txt present with content X.
C6_OrderSensitive ==
    (CallOver(ap) /\ ~ap.raised /\ ap.fs.cloned) =>
        /\ ap.transformations = <<CreateAX, DeleteA>> => "a.txt" \notin DOMAIN ap.fs.files
        /\ ap.transformations = <<DeleteA, CreateAX>> =>
               /\ "a.txt" \in DOMAIN ap.fs.files
               /\ ap.fs.files["a.txt"] = <<"X">>

\* C7: an entry whose operation is outside {create, modify, delete} makes
\* plan parsing fail: no run holds such an entry in its plan, and none
\* reports its path as applied.
C7_InvalidOperationRejected ==
    \A r \in 1..Len(runs) :
        \A j \in 1..Len(runs[r].transformations) :
            runs[r].transformations[j].operation \in ModificationType

\* C8 as stated: for a valid plan object in arbitrary prose, extraction
\* returns what it returns for the object text alone.
C8_ArbitraryProse ==
    (pp.parsed /\ pp.alone.ok) => pp.whole = pp.alone

\* C8, amended: for a valid plan object surrounded by prose with no "{"
\* before it and no "}" after it, extraction returns the entries of the
\* object in their order, as it does for the object text alone.
C8_ProseWithoutBraces ==
    (/\ pp.parsed
     /\ pp.alone.ok
     /\ "{" \notin Range(pp.pre)
     /\ "}" \notin Range(pp.post)) =>
        /\ pp.whole = pp.alone
        /\ pp.whole.transformations =
               [j \in 1..Len(pp.bodies) |-> CodeModification(pp.bodies[j])]

\* C8, its case: an object of two entries with a word of prose on each side
C8_Witness ==
    /\ pp.parsed
    /\ pp.pre = <<"w">>
    /\ pp.post = <<"w">>
    /\ pp.whole.ok
    /\ Len(pp.whole.transformations) = 2

PublishedAll(run) ==
    /\ run.failed_at = ""
    /\ run.calls = AllStages
    /\ run.applied_all
    /\ run.git = GitSteps(Kind(run))
    /\ SubSeq(run.git, Len(run.git) - 3, Len(run.git)) =
           <<"add", "commit", "checkout", "push">>

\* every entry of the plan took effect: none failed and each names one of the
\* three operations
EntriesApplied(run) ==
    /\ Len(run.apply_log) = Len(run.transformations)
    /\ \A j \in 1..Len(run.transformations) :
           /\ ~run.apply_log[j]
           /\ run.transformations[j].operation \in ModificationType

\* C9: deployment_complete is emitted, and a session's status becomes
\* completed, only by a run whose commit_and_publish ran every sub-step
\* (stage, commit, branch, push) and only after the entries of the plan were
\* applied to the environment.
C9_CompletedOnlyAfterPublish ==
    [][/\ \A r \in 1..Len(runs) :
              (runs[r].pc = "y6" /\ runs'[r].pc = "y7") =>
                  /\ PublishedAll(runs'[r])
                  /\ EntriesApplied(runs[r])
       /\ \A d \in 1..Len(session_objs) :
              (session_objs[d].status # "completed"
               /\ session_objs'[d].status = "completed") =>
                  \E r \in 1..Len(runs) :
                      /\ runs[r].pc = "y7"
                      /\ runs[r].session_data = d
                      /\ PublishedAll(runs'[r])
      ]_vars

\* C9, its case: a session is completed
C9_Witness ==
    \E d \in 1..Len(session_objs) : session_objs[d].status = "completed"

\* C10: no session older than SESSION_TIMEOUT is in the store (a session id
\* is the clock reading at its creation).
C10_SessionsExpire ==
    \A id \in DOMAIN active_sessions : now - id <= SESSION_TIMEOUT

\* C11: after create_execution_environment returned, exactly one of
\* e2b_session and workspace_path is set; when the remote path succeeded no
\* local directory was made; and the stages that follow take the branch of
\* the environment that was provisioned (the local one whenever a local
\* directory was made).
C11_ExactlyOneEnvironment ==
    \A r \in 1..Len(runs) :
        (Called(runs[r], "provision") /\ runs[r].failed_at # "provision") =>
            /\ (runs[r].e2b_session # None) # (runs[r].workspace_path # None)
            /\ runs[r].env_why = "remote_ok" => runs[r].tmpdir = "none"
            /\ runs[r].tmpdir # "none" => Kind(runs[r]) = "local"

\* C11, the case of the code: the sandbox was made, entering it raised, and
\* the run called download_repository afterwards
C11_Witness ==
    \E r \in 1..Len(runs) :
        /\ runs[r].env_why = "enter"
        /\ Called(runs[r], "download")

\* the values of models.ExecutionStatus
ExecutionStatus ==
    {"pending", "initializing", "analyzing", "generating", "executing",
     "deploying", "completed", "failed"}

\* C12: the status stored for every session of the store is one of the eight
\* values of ExecutionStatus.
C12_StatusInEnumeration ==
    \A id \in DOMAIN active_sessions :
        session_objs[active_sessions[id]].status \in ExecutionStatus

Terminal == {"completed", "failed"}

\* C13: once the status of a session is completed or failed no step changes
\* it, a second subscription to the stream of the session included.
C13_TerminalStatusIsFinal ==
    [][\A d \in 1..Len(session_objs) :
          session_objs[d].status \in Terminal =>
              session_objs'[d].status = session_objs[d].status
      ]_vars

\* the runs that took the step: the one subscribed or the one whose record
\* changed
Acting(r) == r > Len(runs) \/ runs'[r] # runs[r]

\* the events that end a stream
IsTerminal(e) ==
    \/ e.event = "error"
    \/ e.event = "deployment_complete" /\ e.status = "completed"

\* C14: the events of a run are only ever appended to; the step indices are
\* within 1..TotalSteps and never decrease (the error event carries none,
\* written 0); a terminal event is the last event and nothing is emitted
\* after it; and a run whose generator returned has emitted one.  (Stated
\* of the run that took the step; the events of the others are unchanged.)
C14_StreamEndsWithTerminal ==
    [][\A r \in 1..Len(runs') :
          Acting(r) =>
              LET ev == runs'[r].events
                  old == IF r <= Len(runs) THEN runs[r].events ELSE <<>>
              IN  /\ Len(old) <= Len(ev)
                  /\ SubSeq(ev, 1, Len(old)) = old
                  /\ (\E j \in 1..Len(old) : IsTerminal(old[j])) => ev = old
                  /\ \A j \in 1..Len(ev) :
                         /\ ev[j].step \in 0..TotalSteps
                         /\ ev[j].step = 0 <=> ev[j].event = "error"
                         /\ IsTerminal(ev[j]) => j = Len(ev)
                         /\ (ev[j].step # 0 /\ j > 1) => ev[j - 1].step <= ev[j].step
                  /\ runs'[r].pc = "done" => (ev # <<>> /\ IsTerminal(ev[Len(ev)]))
      ]_vars

\* C14, its case: a stream that ended with the error event of the last stage,
\* after the events of all six steps
C14_Witness ==
    \E r \in 1..Len(runs) :
        /\ runs[r].pc = "done"
        /\ runs[r].failed_at = "publish"
        /\ Len(runs[r].events) = 12
        /\ runs[r].events[12] = ErrorEvent
        /\ runs[r].events[11].step = 6

IsPrefix(a, b) == Len(a) <= Len(b) /\ SubSeq(b, 1, Len(a)) = a

VersionControl == <<"add", "commit", "checkout", "push">>

\* C15: commit_and_publish runs stage-all, commit, create-branch, push in
\* that order in both environments; the call fails exactly when a sub-step
\* fails, that sub-step and the ones after it are not done, and the ones done
\* before it stay done for the rest of the run.
C15_PublishOrder ==
    [][\A r \in 1..Len(runs') :
          Acting(r) =>
              LET run == runs'[r]
                  steps == GitSteps(Kind(run))
                  done == SelectSeq(run.git, LAMBDA g : g # "cd")
              IN  /\ ~Called(run, "publish") => run.git = <<>>
                  /\ Called(run, "publish") =>
                        /\ IsPrefix(run.git, steps)
                        /\ IsPrefix(done, VersionControl)
                        /\ run.failed_at = "publish" <=> run.git # steps
                        /\ run.failed_at # "publish" => done = VersionControl
                  /\ (r <= Len(runs) /\ Called(runs[r], "publish")) => run.git = runs[r].git
      ]_vars

\* C15, its case: the local commit went through, making the branch failed,
\* and the run has ended
C15_Witness ==
    \E r \in 1..Len(runs) :
        /\ runs[r].pc = "done"
        /\ runs[r].failed_at = "publish"
        /\ Kind(runs[r]) = "local"
        /\ runs[r].git = <<"add", "commit">>

\* C16: run_code_validation returns a result whatever the test command
\* does; when the command exceeded its time bound the result says so; and
\* main goes on to commit_and_publish after every validation.
C16_ValidationNeverFatal ==
    [][(cli.pc = "validate" /\ cli'.pc # "validate") =>
          /\ cli'.pc = "publish"
          /\ cli'.failed_at = ""
          /\ cli'.test_run \in ValidationOutcomes
          /\ ~cli'.validation.raised
          /\ cli'.validation.status \in {"completed", "failed"}
          /\ cli'.test_run = "timeout" =>
                 cli'.validation.validation_output \in
                     {"Validation timed out", "Validation execution failed"}
      ]_vars

\* C16, its case: the local test command timed out and main has called
\* commit_and_publish
C16_Witness ==
    /\ cli.test_run = "timeout"
    /\ Kind(cli.p) = "local"
    /\ cli.validation.validation_output = "Validation timed out"
    /\ Called(cli, "publish")

WithOperation(t, operation) == [t EXCEPT !.operation = operation]

\* C17: in every environment state an entry applied as create and the same
\* entry applied as modify end alike (raised or not, failed or not) and
\* leave the same files and directories.
C17_CreateEqualsModify ==
    \A t \in PlanEntries, o \in ServiceOutcomes :
        ApplyEntry(ap.kind, ap.fs, WithOperation(t, "create"), o) =
            ApplyEntry(ap.kind, ap.fs, WithOperation(t, "modify"), o)

AllOk == [j \in 1..MaxPlanLen |-> "ok"]

\* C18: from the same checkout, the same plan applied in the remote and in the
\* local environment (the service answering every call) leaves the same
\* files with the same contents, ends the same way and returns the same
\* list of applied paths.
C18_RemoteEqualsLocal ==
    LET remote == RunLoop(NewCall("remote", ap.fs, ap.transformations), AllOk)
        local == RunLoop(NewCall("local", ap.fs, ap.transformations), AllOk)
    IN  ap.fs.cloned =>
            /\ remote.fs = local.fs
            /\ remote.raised = local.raised
            /\ ImplementResult(remote) = ImplementResult(local)

\* C19: the constructor raises nothing but ValueError, and raises it exactly
\* when neither the argument nor the environment gives an OpenAI key; a
\* platform it made has no GitHub client, no remote session and no
\* workspace path.
C19_ConstructorContract ==
    mk.done =>
        /\ mk.result.raised => mk.result.error = "ValueError"
        /\ mk.result.raised <=> (Falsy(mk.openai_api_key) /\ ~cfg.OPENAI_API_KEY)
        /\ ~mk.result.raised =>
               /\ mk.result.p.github_client = None
               /\ mk.result.p.e2b_session = None
               /\ mk.result.p.workspace_path = None
               /\ ~Falsy(mk.result.p.openai_api_key)

\* C19, its case: an empty argument and a key in the environment
C19_Witness ==
    /\ mk.done
    /\ mk.openai_api_key = ""
    /\ cfg.OPENAI_API_KEY
    /\ ~mk.result.raised
    /\ mk.result.p.openai_api_key = "env-key"

\* nothing the platform acquired is still held
Released(q) == q.sandbox # "open" /\ q.tmpdir # "exists"

\* every call of cleanup_resources made so far ran to its end: none was
\* cancelled while it waited for __aexit__
AllReturned(c) == \A i \in 1..Len(c.cleanups) : c.cleanups[i] \in AexitOutcomes

\* C20: every call of cleanup_resources that is let run to its end returns
\* (the model has no other outcome of it) and leaves the environment
\* released, whatever state it is called in and however often; and one more
\* call changes nothing.
C20_CleanupIdempotent ==
    (cli.pc = "cleanup" /\ cli.cleanups # <<>> /\ AllReturned(cli)) =>
        /\ Released(cli.p)
        /\ \A o \in AexitOutcomes : CleanupResources(cli.p, o) = cli.p

\* C20, the case of the code: closing the sandbox raised in the first call
\* and a second call was made
C20_Witness ==
    /\ cli.pc = "cleanup"
    /\ Len(cli.cleanups) = 2
    /\ AllReturned(cli)
    /\ cli.cleanups[1] = "raise"
    /\ cli.p.env_why = "enter"

\* the runs of a session that have called a stage
RunsOf(session_id, stage) ==
    {r \in 1..Len(runs) : runs[r].session_id = session_id /\ Called(runs[r], stage)}

\* C21: for every session id of the store, each of the stages provision,
\* download, generate, apply and publish is called by at most one run,
\* whatever the interleaving of the subscriptions to its stream.
C21_OnePipelinePerSession ==
    \A id \in DOMAIN active_sessions :
        \A stage \in {"provision", "download", "generate", "apply", "publish"} :
            Cardinality(RunsOf(id, stage)) <= 1

\* C21, the case of the code: two subscriptions to the stream of one session,
\* each of which ran commit_and_publish to its last sub-step
C21_Witness ==
    \E id \in DOMAIN active_sessions :
        \E r1, r2 \in RunsOf(id, "publish") :
            /\ r1 # r2
            /\ runs[r1].git = GitSteps(Kind(runs[r1]))
            /\ runs[r2].git = GitSteps(Kind(runs[r2]))

\* the model output of a plan extraction
ModelOutput == pp.pre \o pp.obj \o pp.post

\* the sequences of entries whose object text, or the empty object when none
\* is listed, is what lies between the first "{" and the last "}" of content
ListedIn(content) ==
    LET json_str == ExtractJson(content)
        k == IF Len(json_str) >= 5 THEN (Len(json_str) - 5) \div 3 ELSE 0
        bs == [j \in 1..k |-> json_str[3*j + 2]]
    IN  IF json_str = <<"{", "}">> THEN {<<>>}
        ELSE IF json_str = ObjectText(bs) /\ Range(bs) \subseteq Bodies THEN {bs}
        ELSE {}

HasKeys(b) == BodyFields(b).has_path /\ BodyFields(b).has_op

\* C22: plan parsing fails, returning no transformation, when what lies
\* between the first "{" and the last "}" of the model output is no object
\* and when an entry listed in it lacks file_path or operation; when it
\* succeeds, the transformations are the listed entries in their order.
C22_ParseFailsOrKeepsOrder ==
    pp.parsed =>
        /\ ListedIn(ModelOutput) = {} => ~pp.whole.ok
        /\ (\E bs \in ListedIn(ModelOutput) : \E j \in 1..Len(bs) : ~HasKeys(bs[j])) =>
               ~pp.whole.ok
        /\ ~pp.whole.ok => pp.whole.transformations = <<>>
        /\ pp.whole.ok =>
               \E bs \in ListedIn(ModelOutput) :
                   /\ \A j \in 1..Len(bs) : HasKeys(bs[j])
                   /\ pp.whole.transformations = [j \in 1..Len(bs) |-> CodeModification(bs[j])]

\* C22, its case: an object whose second entry has no operation was refused
\* although its first entry is complete
C22_Witness ==
    /\ pp.parsed
    /\ pp.pre = <<>>
    /\ pp.post = <<>>
    /\ pp.obj = ObjectText(<<"create_a", "no_op">>)
    /\ ~pp.whole.ok

\* C23: after cleanup_resources returned, the remote session is closed if one
\* was opened and the local scratch directory is gone if one was made, in
\* every state create_execution_environment leaves the platform in.
C23_AcquiredIsReleased ==
    (cli.pc = "cleanup" /\ Len(cli.cleanups) = 1 /\ AllReturned(cli)) =>
        /\ cli.p.sandbox # "none" => cli.p.sandbox = "closed"
        /\ cli.p.tmpdir # "none" => cli.p.tmpdir = "removed"

\* C23, the case of the code: entering the sandbox raised, the platform fell
\* back to a local directory, and the one call of cleanup_resources returned
\* with the directory still there
C23_Witness ==
    /\ cli.pc = "cleanup"
    /\ cli.cleanups = <<"raise">>
    /\ cli.p.env_why = "enter"
    /\ cli.p.workspace_path = "tmpdir"
    /\ cli.p.tmpdir = "exists"

\* the entries of a call from the one at index i on
Remaining(c) == SubSeq(c.transformations, c.i + 1, Len(c.transformations))

\* C24: in both environments, when the next entry deletes a path that is not
\* there and the service answers, the entry leaves the tree as it is, does
\* not fail, its path is added to the applied paths, and the loop goes on:
\* the entries after it end as they do when applied to the same tree on
\* their own.
C24_DeleteAbsentSucceeds ==
    (/\ ~CallOver(ap)
     /\ ap.transformations[ap.i].operation = "delete"
     /\ ap.transformations[ap.i].file_path \notin DOMAIN ap.fs.files) =>
        LET after == LoopStep(ap, "ok")
            rest == RunLoop(NewCall(ap.kind, ap.fs, Remaining(ap)), AllOk)
            final == RunLoop(after, AllOk)
        IN  /\ after.fs = ap.fs
            /\ ~after.raised
            /\ after.log = Append(ap.log, FALSE)
            /\ after.i = ap.i + 1
            /\ after.implemented_files =
                   Append(ap.implemented_files, ap.transformations[ap.i].file_path)
            /\ final.fs = rest.fs
            /\ final.raised = rest.raised
            /\ final.implemented_files = after.implemented_files \o rest.implemented_files

\* C24, its case: the remote call deleted a.txt from a checkout that had no
\* a.txt, then created it, and returned both paths
C24_Witness ==
    /\ ap.kind = "remote"
    /\ ap.transformations = <<DeleteA, CreateAX>>
    /\ CallOver(ap)
    /\ ap.log = <<FALSE, FALSE>>
    /\ ap.implemented_files = <<"a.txt", "a.txt">>
    /\ "a.txt" \in DOMAIN ap.fs.files

\* C25: every location implement_transformations wrote lies under the
\* repository directory, whatever the file_path of the entries of the plan.
C25_WritesStayUnderRoot ==
    \A loc \in DOMAIN ap.fs.files : UnderRoot(loc)

\* C25, the case of the code: the local call applied an entry whose file_path
\* is absolute, and the file is at that path, outside the repository
C25_Witness ==
    /\ ap.kind = "local"
    /\ CallOver(ap)
    /\ ~ap.raised
    /\ "/tmp/x.txt" \in Range(ap.implemented_files)
    /\ "/tmp/x.txt" \in DOMAIN ap.fs.files

\* C26: a call of start_generation adds one id to the store, distinct from
\* the ids already in it, and leaves every entry that was there as it was,
\* also when the clock reads what it read at an earlier creation.
C26_CreationKeepsEntries ==
    [][Len(session_objs') > Len(session_objs) =>
          /\ Cardinality(DOMAIN active_sessions') = Cardinality(DOMAIN active_sessions) + 1
          /\ \A id \in DOMAIN active_sessions :
                 /\ id \in DOMAIN active_sessions'
                 /\ active_sessions'[id] = active_sessions[id]
                 /\ session_objs'[active_sessions'[id]] = session_objs[active_sessions[id]]
      ]_vars

\* C26, the case of the code: two sessions were created at one clock reading
\* and the store holds one id, bound to the second
C26_Witness ==
    /\ Len(session_objs) = 2
    /\ DOMAIN active_sessions = {now}
    /\ active_sessions[now] = 2

\* C27: a run whose subscriber went away holds no environment once it is
\* over: the sandbox it opened is closed and the scratch directory it made
\* is removed.
C27_DisconnectStillReleases ==
    \A r \in 1..Len(runs) :
        (runs[r].pc = "closed" /\ Called(runs[r], "provision")) => Released(runs[r])

\* C27, the case of the code: the subscriber left while the run was
\* suspended after the download stage, with a sandbox open
C27_Witness ==
    \E r \in 1..Len(runs) :
        /\ runs[r].pc = "closed"
        /\ runs[r].calls = <<"provision", "download">>
        /\ runs[r].env_why = "remote_ok"
        /\ runs[r].sandbox = "open"

\* C28: once the stream of a run on a session of the store has ended, by the
\* generator returning or by the subscriber closing it, the status stored
\* for the session is completed or failed.
C28_EndedStreamHasTerminalStatus ==
    \A r \in 1..Len(runs) :
        (runs[r].pc \in {"done", "closed", "cancelled"} /\ runs[r].session_data # 0) =>
            session_objs[runs[r].session_data].status \in Terminal

\* C28, the case of the code: the subscriber closed the stream on receiving
\* deployment_complete and the status of the session is still running
C28_Witness ==
    \E r \in 1..Len(runs) :
        /\ runs[r].pc = "closed"
        /\ runs[r].events # <<>>
        /\ runs[r].events[Len(runs[r].events)].event = "deployment_complete"
        /\ session_objs[runs[r].session_data].status = "running"

\* C29: a step of a run leaves the dict of every session other than its own
\* as it was, and leaves every other run (its environment handles and the
\* events it emitted) as it was.
C29_SessionsIndependent ==
    [][\A r \in 1..Len(runs') :
          Acting(r) =>
              /\ \A d \in 1..Len(session_objs) :
                     d # runs'[r].session_data => session_objs'[d] = session_objs[d]
              /\ \A q \in 1..Len(runs) : q # r => runs'[q] = runs[q]
      ]_vars

\* C29, the case of the code: two sessions were created at one clock
\* reading, each has a run, the run of the first failed and it is the second
\* session that is marked failed, while its own run goes on
C29_Witness ==
    /\ Len(runs) = 2
    /\ runs[1].session_data = 1
    /\ runs[2].session_data = 2
    /\ runs[1].failed_at # ""
    /\ runs[2].failed_at = ""
    /\ runs[2].pc = "y2"
    /\ session_objs[1].status = "running"
    /\ session_objs[2].status = "failed"

=============================================================================
